---- MODULE Spec2Model ----
(***************************************************************************)
(* A model of the RAG indexing / retrieval pipeline:                       *)
(*   build_index.py   chunk_text, load_docs, file_hash, main               *)
(*   geminitestv1.py / geminitestv2.py   load_chroma_collection,           *)
(*                                       retrieve_context                  *)
(* Python strings are modelled as sequences of one-character strings, so   *)
(* that slicing, strip(), concatenation and formatting are computed.       *)
(***************************************************************************)
EXTENDS Integers, Sequences, FiniteSets, TLC

VARIABLES
    CHUNK_SIZE,     \* build_index.py:31, the configured maximum chunk size S
    CHUNK_OVERLAP,  \* build_index.py:32, the configured overlap O
    text,           \* chunk_text: its argument
    start,          \* chunk_text: local `start`
    chunks,         \* chunk_text: local `chunks`
    windows,        \* history: the windows <<start, end>> visited so far
    cpc,            \* chunk_text: "idle" | "loop" | "return"
    kb,             \* the source directory KB_DIR: NoDir or name -> entry
    mpc,            \* main: "idle" | "start" | "chunking" | "delete" |
                    \*       "create" | "add" | "done" | "failed" | "aborted"
    docs,           \* main: local `docs` (result of load_docs)
    di,             \* main: position of `doc` in `for doc in docs`
    ids,            \* main: local `ids`
    texts,          \* main: local `texts`
    metadatas,      \* main: local `metadatas`
    store,          \* the persistent collection COLLECTION_NAME: Absent or
                    \* the set of its records
    store0,         \* history: the collection when the current run started
    prevDone,       \* history: the collection after the last run that
                    \* completed, or NoBuild
    rpc,            \* retrieve_context: "idle" | "returned" | "raised"
    top_k,          \* retrieve_context: its argument
    results,        \* retrieve_context: what collection.query returned
    citations,      \* retrieve_context: returned `citations`
    context_text    \* retrieve_context: returned `context_text`

cvars == <<text, start, chunks, windows, cpc>>
mvars == <<kb, mpc, docs, di, ids, texts, metadatas, store0, prevDone>>
rvars == <<rpc, top_k, results, citations, context_text>>
vars == <<CHUNK_SIZE, CHUNK_OVERLAP, cvars, mvars, store, rvars>>

----------------------------------------------------------------------------
(* Bounds *)

MaxLen == 5        \* longest text handed to chunk_text on its own
MaxS == 3          \* largest configured chunk size
MaxO == 3          \* largest configured overlap
MaxDocLen == 2     \* longest file in the source directory
HashSpace == 3     \* number of distinct digests file_hash can produce
MaxTopK == 2       \* largest top_k passed to retrieve_context

MaxIter == MaxLen + 1  \* cap on loop iterations (only binds when O >= S)

----------------------------------------------------------------------------
(* Strings *)

Alphabet == {"a", " "}

Min(a, b) == IF a < b THEN a ELSE b

SetMin(X) == CHOOSE x \in X : \A y \in X : x <= y

SetMax(X) == CHOOSE x \in X : \A y \in X : x >= y

StringsUpTo(k) == UNION {[1..m -> Alphabet] : m \in 0..k}

IsSpace(c) == c \in {" ", "\n", "\t", "\r"}

\* text[a:b] for 0 <= a <= b <= len(text)
Slice(s, a, b) == SubSeq(s, a + 1, b)

Strip(s) ==
    LET keep == {i \in 1..Len(s) : ~IsSpace(s[i])}
    IN  IF keep = {} THEN <<>> ELSE SubSeq(s, SetMin(keep), SetMax(keep))

DigitChar(d) == <<"0", "1", "2", "3", "4", "5", "6", "7", "8", "9",
                  "a", "b", "c", "d", "e", "f">>[d + 1]

RECURSIVE Dec(_)
\* str(i) for i >= 0
Dec(i) == IF i < 10 THEN <<DigitChar(i)>>
          ELSE Dec(i \div 10) \o <<DigitChar(i % 10)>>

RECURSIVE HexFixed(_, _)
\* v as exactly w hexadecimal digits
HexFixed(v, w) == IF w = 0 THEN <<>>
                  ELSE HexFixed(v \div 16, w - 1) \o <<DigitChar(v % 16)>>

EndsWith(s, suf) ==
    /\ Len(suf) <= Len(s)
    /\ SubSeq(s, Len(s) - Len(suf) + 1, Len(s)) = suf

StartsWith(s, pre) ==
    /\ Len(pre) <= Len(s)
    /\ SubSeq(s, 1, Len(pre)) = pre

----------------------------------------------------------------------------
(* chunk_text *)

Example == <<"A","A","A","A","A","B","B","B","B","B","C","C","C","C","C">>

n == Len(text)

WindowEnd(s) == Min(s + CHUNK_SIZE, n)

\* variants of NextStart with a plausible slip, used to test the properties
NextStartNoOverlap(e) == e

NextStartStuck(e) == IF e - CHUNK_SIZE < 0 THEN 0 ELSE e - CHUNK_SIZE

NextStartOffByOne(e) ==
    IF e - CHUNK_OVERLAP + 1 < 0 THEN 0 ELSE e - CHUNK_OVERLAP + 1

NextStart(e) == IF e - CHUNK_OVERLAP < 0 THEN 0 ELSE e - CHUNK_OVERLAP

\* variant of Trim that forgets strip()
TrimNothing(s) == s

Trim(s) == Strip(s)

\* the state at entry to chunk_text(t)
CallChunkText(t) ==
    /\ text' = t
    /\ start' = 0
    /\ chunks' = <<>>
    /\ windows' = <<>>
    /\ cpc' = "loop"

\* the test of `while start < n` and, when it holds, one iteration of the
\* loop body; when it fails, `return chunks`
ChunkStep ==
    /\ cpc = "loop"
    /\ Len(windows) < MaxIter
    /\ IF start < n
       THEN LET e == WindowEnd(start)
                chunk == Trim(Slice(text, start, e))
            IN  /\ chunks' = IF chunk # <<>> THEN Append(chunks, chunk)
                             ELSE chunks
                /\ start' = NextStart(e)
                /\ windows' = Append(windows, <<start, e>>)
                /\ cpc' = IF e = n THEN "return" ELSE "loop"
       ELSE /\ cpc' = "return"
            /\ UNCHANGED <<start, chunks, windows>>
    /\ UNCHANGED <<CHUNK_SIZE, CHUNK_OVERLAP, text, mvars, store, rvars>>

----------------------------------------------------------------------------
(* Values the parts not running hold *)

NoDir == [isdir |-> FALSE, entries |-> <<>>]
Absent == [exists |-> FALSE, records |-> {}]
NoBuild == [some |-> FALSE, records |-> {}]

MainIdle ==
    /\ kb = NoDir
    /\ mpc = "idle"
    /\ docs = <<>>
    /\ di = 0
    /\ ids = <<>>
    /\ texts = <<>>
    /\ metadatas = <<>>
    /\ store0 = Absent
    /\ prevDone = NoBuild

RetrieveIdle ==
    /\ rpc = "idle"
    /\ top_k = 0
    /\ results = <<>>
    /\ citations = <<>>
    /\ context_text = <<>>

ChunkIdle ==
    /\ text = <<>>
    /\ start = 0
    /\ chunks = <<>>
    /\ windows = <<>>
    /\ cpc = "idle"

----------------------------------------------------------------------------
(* chunk_text on its own: every text, every configuration *)

InitChunk ==
    /\ \/ /\ text \in StringsUpTo(MaxLen)
          /\ CHUNK_SIZE \in 1..MaxS
          /\ CHUNK_OVERLAP \in 0..MaxO
       \/ /\ text = Example
          /\ CHUNK_SIZE = 10
          /\ CHUNK_OVERLAP = 3
    /\ start = 0
    /\ chunks = <<>>
    /\ windows = <<>>
    /\ cpc = "loop"
    /\ MainIdle
    /\ store = Absent
    /\ RetrieveIdle

NextChunk == ChunkStep

SpecChunk == InitChunk /\ [][NextChunk]_vars /\ WF_vars(NextChunk)

----------------------------------------------------------------------------
(* The source directory and load_docs *)

KB_DIR == <<"k","b","_","d","o","c","s">>

A_MD == <<"a",".","m","d">>
B_TXT == <<"B",".","T","X","T">>
N_PY == <<"n",".","p","y">>
SUB_MD == <<"s",".","m","d">>
OLD_TXT == <<"o",".","t","x","t">>

File(t) == [isfile |-> TRUE, text |-> t]
SubDir == [isfile |-> FALSE, text |-> <<>>]

\* a file that may be missing: <<>> (no file) or <<t>> (a file holding t)
MaybeFile(k) == {<<>>} \cup {<<t>> : t \in StringsUpTo(k)}

\* a directory holding a.md and B.TXT (each possibly missing), the file
\* n.py and the subdirectory s.md
DirOf(fa, fb) ==
    [isdir |-> TRUE,
     entries |->
        [nm \in {N_PY, SUB_MD} \cup (IF fa # <<>> THEN {A_MD} ELSE {})
                               \cup (IF fb # <<>> THEN {B_TXT} ELSE {}) |->
            IF nm = A_MD THEN File(fa[1])
            ELSE IF nm = B_TXT THEN File(fb[1])
            ELSE IF nm = N_PY THEN File(<<"a">>)
            ELSE SubDir]]

Kbs == {NoDir} \cup {DirOf(fa, fb) : fa \in MaybeFile(MaxDocLen),
                                      fb \in MaybeFile(1)}

LowerChar(c) ==
    IF c = "B" THEN "b" ELSE IF c = "T" THEN "t" ELSE IF c = "X" THEN "x"
    ELSE IF c = "A" THEN "a" ELSE IF c = "C" THEN "c" ELSE c

Lower(s) == [i \in 1..Len(s) |-> LowerChar(s[i])]

\* os.path.join(kb_dir, name)
PathOf(nm) == KB_DIR \o <<"/">> \o nm

CharCode(c) == IF c = " " THEN 32 ELSE 97

RECURSIVE Digest(_)
\* the digest of a file's bytes, folded into HashSpace values: equal
\* contents have equal digests, different contents may collide
Digest(t) == IF t = <<>> THEN 1
             ELSE (31 * Digest(Tail(t)) + CharCode(Head(t))) % HashSpace

HashWidth == 16

FileHashSalted(t) == HexFixed((Digest(t) + Cardinality(prevDone.records)) % 16,
                              HashWidth)

FileHash(t) == HexFixed(Digest(t), HashWidth)

Eligible(nm) ==
    \/ EndsWith(Lower(PathOf(nm)), <<".","m","d">>)
    \/ EndsWith(Lower(PathOf(nm)), <<".","t","x","t">>)

Doc(nm, t) ==
    [path |-> PathOf(nm), filename |-> nm, text |-> t, hash |-> FileHash(t)]

\* variant of SkipsFile that keeps zero-length files
SkipsFileKeepEmpty(e, nm) ==
    \/ ~e.isfile
    \/ ~Eligible(nm)

\* the three `continue`s of load_docs
SkipsFile(e, nm) ==
    \/ ~e.isfile
    \/ ~Eligible(nm)
    \/ Len(e.text) = 0

RECURSIVE LoadDocs(_, _)
\* load_docs over the directory entries in glob order `order`
LoadDocs(entries, order) ==
    IF order = <<>> THEN <<>>
    ELSE LET nm == Head(order)
             rest == LoadDocs(entries, Tail(order))
         IN  IF SkipsFile(entries[nm], nm) THEN rest
             ELSE <<Doc(nm, entries[nm].text)>> \o rest

\* the orders in which glob may list a set of names
Orders(S) == {o \in [1..Cardinality(S) -> S] :
                 \A i, j \in 1..Cardinality(S) : i # j => o[i] # o[j]}

----------------------------------------------------------------------------
(* main *)

\* variant of ChunkId that leaves the file name out
ChunkIdNoFile(doc, i) == doc.hash \o <<":",":">> \o Dec(i)

ChunkId(doc, i) ==
    doc.filename \o <<":",":">> \o doc.hash \o <<":",":">> \o Dec(i)

Meta(doc, i) ==
    [source_file |-> doc.filename, source_path |-> doc.path, chunk_index |-> i]

\* the records one collection.add call carries
Batch == {[id |-> ids[i], text |-> texts[i], meta |-> metadatas[i]] :
             i \in 1..Len(ids)}

\* the collection an earlier build left, of a directory that held a.md
\* and o.txt, both "a"
PriorRecords ==
    {[id |-> ChunkId(Doc(nm, <<"a">>), 0), text |-> <<"a">>,
      meta |-> Meta(Doc(nm, <<"a">>), 0)] : nm \in {A_MD, OLD_TXT}}

Collection(recs) == [exists |-> TRUE, records |-> recs]

ResetChunkText ==
    /\ text' = <<>>
    /\ start' = 0
    /\ chunks' = <<>>
    /\ windows' = <<>>
    /\ cpc' = "idle"

\* KB_DIR is not a directory: SystemExit
MainAbortNoDir ==
    /\ mpc = "start"
    /\ ~kb.isdir
    /\ mpc' = "aborted"
    /\ UNCHANGED <<CHUNK_SIZE, CHUNK_OVERLAP, cvars, kb, docs, di, ids, texts,
                   metadatas, store0, prevDone, store, rvars>>

\* load_docs returns no document: SystemExit
MainAbortNoDocs ==
    /\ mpc = "start"
    /\ kb.isdir
    /\ \E order \in Orders(DOMAIN kb.entries) :
          LoadDocs(kb.entries, order) = <<>>
    /\ mpc' = "aborted"
    /\ UNCHANGED <<CHUNK_SIZE, CHUNK_OVERLAP, cvars, kb, docs, di, ids, texts,
                   metadatas, store0, prevDone, store, rvars>>

\* load_docs returns documents: enter `for doc in docs` with the first one
MainLoad ==
    /\ mpc = "start"
    /\ kb.isdir
    /\ \E order \in Orders(DOMAIN kb.entries) :
          LET d == LoadDocs(kb.entries, order)
          IN  /\ d # <<>>
              /\ docs' = d
              /\ CallChunkText(d[1].text)
    /\ di' = 1
    /\ ids' = <<>>
    /\ texts' = <<>>
    /\ metadatas' = <<>>
    /\ mpc' = "chunking"
    /\ UNCHANGED <<CHUNK_SIZE, CHUNK_OVERLAP, kb, store0, prevDone, store,
                   rvars>>

\* chunk_text returned: the inner `for i, chunk in enumerate(chunks)`, then
\* the next document, or on to the store
MainCollect ==
    /\ mpc = "chunking"
    /\ cpc = "return"
    /\ LET doc == docs[di]
       IN  /\ ids' = ids \o [i \in 1..Len(chunks) |-> ChunkId(doc, i - 1)]
           /\ texts' = texts \o chunks
           /\ metadatas' =
                 metadatas \o [i \in 1..Len(chunks) |-> Meta(doc, i - 1)]
    /\ IF di < Len(docs)
       THEN /\ di' = di + 1
            /\ CallChunkText(docs[di + 1].text)
            /\ mpc' = "chunking"
       ELSE /\ di' = di
            /\ ResetChunkText
            /\ mpc' = "delete"
    /\ UNCHANGED <<CHUNK_SIZE, CHUNK_OVERLAP, kb, docs, store0, prevDone,
                   store, rvars>>

\* client.delete_collection(COLLECTION_NAME); an exception is swallowed
DeleteCollection ==
    /\ mpc = "delete"
    /\ store' = Absent
    /\ mpc' = "create"
    /\ UNCHANGED <<CHUNK_SIZE, CHUNK_OVERLAP, cvars, kb, docs, di, ids, texts,
                   metadatas, store0, prevDone, rvars>>

\* client.create_collection(name=COLLECTION_NAME); raises if it exists
CreateCollection ==
    /\ mpc = "create"
    /\ IF store.exists
       THEN /\ mpc' = "failed"
            /\ UNCHANGED store
       ELSE /\ mpc' = "add"
            /\ store' = Collection({})
    /\ UNCHANGED <<CHUNK_SIZE, CHUNK_OVERLAP, cvars, kb, docs, di, ids, texts,
                   metadatas, store0, prevDone, rvars>>

\* collection.add(...) succeeds: every record of the call is stored
AddOk ==
    /\ mpc = "add"
    /\ store' = Collection(store.records \cup Batch)
    /\ mpc' = "done"
    /\ UNCHANGED <<CHUNK_SIZE, CHUNK_OVERLAP, cvars, kb, docs, di, ids, texts,
                   metadatas, store0, prevDone, rvars>>

\* variant of AddFail for records added one call at a time: the failure
\* leaves the records added before it
AddFailPartial ==
    /\ mpc = "add"
    /\ \E part \in SUBSET Batch :
          store' = Collection(store.records \cup part)
    /\ mpc' = "failed"
    /\ UNCHANGED <<CHUNK_SIZE, CHUNK_OVERLAP, cvars, kb, docs, di, ids, texts,
                   metadatas, store0, prevDone, rvars>>

\* collection.add(...) raises (store unavailable): nothing is stored
AddFail ==
    /\ mpc = "add"
    /\ mpc' = "failed"
    /\ UNCHANGED <<CHUNK_SIZE, CHUNK_OVERLAP, cvars, kb, docs, di, ids, texts,
                   metadatas, store0, prevDone, store, rvars>>

\* the script is run again (a rebuild, or the caller's retry)
Rerun ==
    /\ mpc \in {"done", "failed", "aborted"}
    /\ mpc' = "start"
    /\ docs' = <<>>
    /\ di' = 0
    /\ ids' = <<>>
    /\ texts' = <<>>
    /\ metadatas' = <<>>
    /\ store0' = store
    /\ prevDone' = IF mpc = "done" THEN [some |-> TRUE, records |-> store.records]
                   ELSE prevDone
    /\ UNCHANGED <<CHUNK_SIZE, CHUNK_OVERLAP, cvars, kb, store, rvars>>

Init ==
    /\ CHUNK_SIZE \in 1..MaxDocLen
    /\ CHUNK_OVERLAP \in 0..(MaxDocLen - 1)
    /\ ChunkIdle
    /\ kb \in Kbs
    /\ mpc = "start"
    /\ docs = <<>>
    /\ di = 0
    /\ ids = <<>>
    /\ texts = <<>>
    /\ metadatas = <<>>
    /\ prevDone = NoBuild
    /\ store \in {Absent, Collection(PriorRecords)}
    /\ store0 = store
    /\ RetrieveIdle

Next ==
    \/ MainAbortNoDir
    \/ MainAbortNoDocs
    \/ MainLoad
    \/ ChunkStep
    \/ MainCollect
    \/ DeleteCollection
    \/ CreateCollection
    \/ AddOk
    \/ AddFail
    \/ Rerun

Spec == Init /\ [][Next]_vars

----------------------------------------------------------------------------
(* retrieve_context (geminitestv1.py and geminitestv2.py are identical here) *)

Unknown == <<"u","n","k","n","o","w","n">>

BlockDelim == <<"\n","\n","-","-","-","\n","\n">>

\* Python's None: what the store returns in `metadatas` for a record that
\* was stored without metadata
NoneMeta == [py_none |-> TRUE]

IsNone(meta) == "py_none" \in DOMAIN meta

\* meta.get(key, default), for a meta that is a dict
MetaGet(meta, key, default) == IF key \in DOMAIN meta THEN meta[key] ELSE default

\* the loop's `meta`, `cid`, `source_file`, `chunk_index` for 0-based i
MetaAt(res, i) ==
    IF i < Len(res.metadatas) THEN res.metadatas[i + 1] ELSE <<>>

IdAt(res, i) ==
    IF i < Len(res.ids) THEN res.ids[i + 1] ELSE <<"c","h","u","n","k","_">> \o Dec(i)

SourceFileAt(res, i) == MetaGet(MetaAt(res, i), "source_file", Unknown)

ChunkIndexAt(res, i) == MetaGet(MetaAt(res, i), "chunk_index", i)

Citation(res, i) ==
    [id |-> IdAt(res, i), source_file |-> SourceFileAt(res, i),
     chunk_index |-> ChunkIndexAt(res, i)]

\* variant of Block whose rank marker is 0-based
BlockZeroBased(i, source_file, chunk_index, doc) ==
    <<"[">> \o Dec(i) \o <<"]"," ","(","s","o","u","r","c","e",":"," ">> \o source_file
        \o <<","," ","c","h","u","n","k",":"," ">> \o Dec(chunk_index) \o <<")", "\n">> \o doc

\* f"[{i+1}] (source: {source_file}, chunk: {chunk_index})\n{doc}"
Block(i, source_file, chunk_index, doc) ==
    <<"[">> \o Dec(i + 1) \o <<"]"," ","(","s","o","u","r","c","e",":"," ">> \o source_file
        \o <<","," ","c","h","u","n","k",":"," ">> \o Dec(chunk_index) \o <<")", "\n">> \o doc

RECURSIVE Join(_, _)
\* sep.join(parts)
Join(parts, sep) ==
    IF parts = <<>> THEN <<>>
    ELSE IF Len(parts) = 1 THEN parts[1]
    ELSE parts[1] \o sep \o Join(Tail(parts), sep)

\* `meta.get` on None raises AttributeError: the loop does not complete
Raises(res) ==
    \E j \in 1..Len(res.documents) : IsNone(MetaAt(res, j - 1))

CitationsOf(res) == [j \in 1..Len(res.documents) |-> Citation(res, j - 1)]

ContextBlocksOf(res) ==
    [j \in 1..Len(res.documents) |->
        Block(j - 1, SourceFileAt(res, j - 1), ChunkIndexAt(res, j - 1),
              res.documents[j])]

ContextTextOf(res) == Strip(Join(ContextBlocksOf(res), BlockDelim))

\* the rankings collection.query may return for n_results = k: the
\* min(k, count) nearest records, in an order the query decides
Rankings(recs, k) ==
    LET m == Min(k, Cardinality(recs))
    IN  {o \in [1..m -> recs] : \A i, j \in 1..m : i # j => o[i] # o[j]}

QueryResults(ranked) ==
    [ids |-> [j \in 1..Len(ranked) |-> ranked[j].id],
     documents |-> [j \in 1..Len(ranked) |-> ranked[j].text],
     metadatas |-> [j \in 1..Len(ranked) |-> ranked[j].meta]]

\* client.get_or_create_collection(name=COLLECTION_NAME)
GetOrCreate(st) == IF st.exists THEN st ELSE Collection({})

\* retrieve_context(query, top_k): the query decides the ranking
RetrieveContext ==
    /\ \E k \in 1..MaxTopK :
          /\ top_k' = k
          /\ \E ranked \in Rankings(GetOrCreate(store).records, k) :
                results' = QueryResults(ranked)
    /\ store' = GetOrCreate(store)
    /\ IF Raises(results')
       THEN /\ citations' = <<>>
            /\ context_text' = <<>>
            /\ rpc' = "raised"
       ELSE /\ citations' = CitationsOf(results')
            /\ context_text' = ContextTextOf(results')
            /\ rpc' = "returned"
    /\ UNCHANGED <<CHUNK_SIZE, CHUNK_OVERLAP, cvars, mvars>>

\* records an index build wrote (a.md = "aa" and B.TXT = "a" with S = 1),
\* and records written by another writer without source_file, without
\* chunk_index, or with no metadata at all
IndexedRecords ==
    {[id |-> ChunkId(Doc(A_MD, <<"a","a">>), i), text |-> <<"a">>,
      meta |-> Meta(Doc(A_MD, <<"a","a">>), i)] : i \in {0, 1}}
    \cup {[id |-> ChunkId(Doc(B_TXT, <<"a">>), 0), text |-> <<"a">>,
           meta |-> Meta(Doc(B_TXT, <<"a">>), 0)]}

ForeignRecords ==
    {[id |-> <<"x">>, text |-> <<"a", " ">>, meta |-> [chunk_index |-> 7]],
     [id |-> <<"y">>, text |-> <<"a", " ", "a">>,
      meta |-> [source_file |-> A_MD]],
     [id |-> <<"z">>, text |-> <<"a">>, meta |-> NoneMeta]}

InitRetrieve ==
    /\ CHUNK_SIZE = 800
    /\ CHUNK_OVERLAP = 150
    /\ ChunkIdle
    /\ MainIdle
    /\ store \in {Absent} \cup
                 {Collection(R) : R \in SUBSET (IndexedRecords \cup ForeignRecords)}
    /\ RetrieveIdle

NextRetrieve == RetrieveContext

SpecRetrieve == InitRetrieve /\ [][NextRetrieve]_vars

----------------------------------------------------------------------------
(* The index build and the chat front-end over the same persistent store:  *)
(* retrievals interleave with the steps of a build, each one as the first  *)
(* retrieval of a front-end process (load_chroma_collection runs)          *)

InitServe ==
    /\ CHUNK_SIZE = 800
    /\ CHUNK_OVERLAP = 150
    /\ ChunkIdle
    /\ kb \in Kbs
    /\ mpc = "start"
    /\ docs = <<>>
    /\ di = 0
    /\ ids = <<>>
    /\ texts = <<>>
    /\ metadatas = <<>>
    /\ prevDone = NoBuild
    /\ store \in {Absent, Collection(PriorRecords)}
    /\ store0 = store
    /\ RetrieveIdle

NextServe == Next \/ RetrieveContext

SpecServe == InitServe /\ [][NextServe]_vars

----------------------------------------------------------------------------
(* Properties of the index build (checked under Spec) *)

Sep == <<":", ":">>

\* C5: in one build the ids are pairwise distinct, each id is
\* "{filename}::{content_hash}::{chunk_index}" of a loaded document, and
\* within each document the chunk_index values count 0, 1, ... in
\* traversal order.
C5_IdsDistinct ==
    /\ Len(texts) = Len(ids)
    /\ Len(metadatas) = Len(ids)
    /\ \A i, j \in 1..Len(ids) : i # j => ids[i] # ids[j]
    /\ \A p \in 1..Len(ids) :
          /\ metadatas[p].chunk_index =
                Cardinality({q \in 1..(p - 1) :
                    metadatas[q].source_file = metadatas[p].source_file})
          /\ \E d \in 1..Len(docs) :
                /\ docs[d].filename = metadatas[p].source_file
                /\ ids[p] = docs[d].filename \o Sep \o docs[d].hash \o Sep
                               \o Dec(metadatas[p].chunk_index)

C5_Witness ==
    /\ mpc = "done"
    /\ Len(docs) = 2
    /\ docs[1].hash = docs[2].hash
    /\ \E p \in 1..Len(ids) : metadatas[p].chunk_index = 1

\* C6: a build that completes leaves exactly its own records, one per id,
\* and a build that completes after an earlier completed build of the
\* unchanged directory leaves the same records as that one.
C6_RebuildIdempotent ==
    mpc = "done" =>
        /\ store = Collection(Batch)
        /\ Cardinality(store.records) = Len(ids)
        /\ prevDone.some => store.records = prevDone.records

C6_Witness ==
    /\ mpc = "done"
    /\ prevDone.some
    /\ store0 = Collection(prevDone.records)
    /\ Len(ids) >= 2

\* C7 as stated: with overlap >= max_chunk_size the build is rejected
\* before it does anything: the chunk loop is never entered and the run
\* never gets past its start.
C7_AsStated ==
    CHUNK_OVERLAP >= CHUNK_SIZE =>
        /\ cpc = "idle"
        /\ mpc \in {"start", "aborted"}
        /\ store = store0

HasEligibleDoc ==
    \E nm \in DOMAIN kb.entries :
        /\ kb.entries[nm].isfile
        /\ Len(kb.entries[nm].text) > 0
        /\ \/ EndsWith(Lower(nm), <<".","m","d">>)
           \/ EndsWith(Lower(nm), <<".","t","x","t">>)

\* C8: when the source directory is missing or holds no eligible document
\* of non-zero length, the run aborts at its start, before any store
\* operation, and the collection is as it was before the run.
C8_AbortLeavesStore ==
    (~kb.isdir \/ ~HasEligibleDoc) =>
        /\ mpc \in {"start", "aborted"}
        /\ store = store0

C8_Witness ==
    /\ mpc = "aborted"
    /\ kb.isdir
    /\ A_MD \in DOMAIN kb.entries
    /\ store = Collection(PriorRecords)

\* C9: over runs in which add may fail and the build is retried, the
\* collection is always absent, empty, or the complete record set of one
\* build (the earlier one, or one of this directory), and after a run that
\* completes it is exactly that run's records.
C9_NeverPartial ==
    /\ ~store.exists => store.records = {}
    /\ \/ store.records = {}
       \/ store.records = PriorRecords
       \/ prevDone.some /\ store.records = prevDone.records
       \/ mpc = "done" /\ store.records = Batch
    /\ mpc = "done" => store = Collection(Batch)

C9_Witness ==
    /\ mpc = "done"
    /\ store0 = Collection({})
    /\ Cardinality(Batch) >= 2

\* C13 as stated: a run that reaches the deletion of the existing
\* collection, or any later step, has accumulated at least one chunk
\* record, so a directory of whitespace-only documents does not replace a
\* prior collection by an empty one.
C13_AsStated ==
    /\ mpc \in {"delete", "create", "add", "done", "failed"} => Len(ids) >= 1
    /\ ~(/\ mpc \in {"done", "failed"}
         /\ store0.records # {}
         /\ store = Collection({}))

----------------------------------------------------------------------------
(* Properties of retrieve_context (checked under SpecRetrieve) *)

\* the first position at which `sep` occurs in s, or 0
FindFirst(s, sep) ==
    LET at == {p \in 1..(Len(s) - Len(sep) + 1) :
                  SubSeq(s, p, p + Len(sep) - 1) = sep}
    IN  IF at = {} THEN 0 ELSE SetMin(at)

RECURSIVE SplitOn(_, _)
\* s.split(sep)
SplitOn(s, sep) ==
    LET p == FindFirst(s, sep)
    IN  IF p = 0 THEN <<s>>
        ELSE <<SubSeq(s, 1, p - 1)>>
                 \o SplitOn(SubSeq(s, p + Len(sep), Len(s)), sep)

\* what block number j (1-based) must start with, for citation c
BlockHead(j, c) ==
    <<"[">> \o Dec(j) \o <<"]"," ","(","s","o","u","r","c","e",":"," ">> \o c.source_file
        \o <<","," ","c","h","u","n","k",":"," ">> \o Dec(c.chunk_index) \o <<")">>

\* C10: retrieve_context returns at most top_k citations, in the order of
\* the store's results, and context_text splits at the block delimiter into
\* exactly one block per citation, in that order, block i starting with the
\* marker [i] and the source_file and chunk_index of citation i and holding
\* the i-th document; with no results both are empty.
C10_RetrievalOrdering ==
    rpc = "returned" =>
        /\ top_k >= 1
        /\ Len(citations) <= top_k
        /\ Len(citations) = Len(results.ids)
        /\ \A j \in 1..Len(citations) : citations[j].id = results.ids[j]
        /\ IF Len(results.documents) = 0
           THEN citations = <<>> /\ context_text = <<>>
           ELSE LET blocks == SplitOn(context_text, BlockDelim)
                IN  /\ Len(blocks) = Len(citations)
                    /\ \A j \in 1..Len(blocks) :
                          /\ StartsWith(blocks[j], BlockHead(j, citations[j]))
                          /\ Strip(blocks[j]) =
                                Strip(BlockHead(j, citations[j]) \o <<"\n">>
                                          \o results.documents[j])

C10_Witness ==
    /\ rpc = "returned"
    /\ top_k = 2
    /\ Cardinality(store.records) >= 3
    /\ Len(citations) = 2
    /\ citations[1].chunk_index = 1
    /\ citations[2].chunk_index = 0

\* what the citations must be when no metadata field may make the call fail
CitationDefaults ==
    /\ Len(citations) = Len(results.documents)
    /\ \A j \in 1..Len(citations) :
          LET m == results.metadatas[j]
          IN  /\ citations[j].source_file =
                    IF ~IsNone(m) /\ "source_file" \in DOMAIN m
                    THEN m.source_file ELSE Unknown
              /\ citations[j].chunk_index =
                    IF ~IsNone(m) /\ "chunk_index" \in DOMAIN m
                    THEN m.chunk_index ELSE j - 1

\* C11 as stated: retrieve_context never fails on missing metadata: a
\* result whose metadata is absent or lacks source_file or chunk_index
\* still gets a citation, with "unknown" and the result's position as the
\* defaults, one citation per returned document.
C11_AsStated ==
    rpc # "idle" => rpc = "returned" /\ CitationDefaults

\* the part of C11 the code keeps: when every returned metadata is a dict
C11_DictMetadata ==
    rpc = "returned" => CitationDefaults

----------------------------------------------------------------------------
(* Properties of the store under retrieval (checked under SpecServe) *)

\* C12 as stated: a retrieval, in any interleaving with index builds and
\* also when the collection does not exist yet, leaves the collections of
\* the store and the records of each unchanged.
C12_AsStated == [][RetrieveContext => store' = store]_vars

----------------------------------------------------------------------------
(* Properties of chunk_text (checked under SpecChunk) *)

Valid == 0 <= CHUNK_OVERLAP /\ CHUNK_OVERLAP < CHUNK_SIZE

\* the positions of the text a window [start, end) holds
Pos(w) == w[1]..(w[2] - 1)

LastWindow == windows[Len(windows)]

\* C1: for 0 <= O < S the windows visited start at 0, each later window
\* starts exactly O characters before the end of the one before it and
\* shares exactly O positions with it, and once chunk_text returns the
\* windows end at n and leave no position of [0, n) uncovered.
C1_WindowCoverage ==
    Valid =>
        /\ windows # <<>> => windows[1][1] = 0
        /\ \A i \in 1..(Len(windows) - 1) :
              /\ windows[i + 1][1] = windows[i][2] - CHUNK_OVERLAP
              /\ Cardinality(Pos(windows[i]) \cap Pos(windows[i + 1]))
                    = CHUNK_OVERLAP
        /\ cpc = "return" =>
              /\ n > 0 => windows # <<>> /\ LastWindow[2] = n
              /\ UNION {Pos(windows[i]) : i \in 1..Len(windows)} = 0..(n - 1)

C1_Witness ==
    /\ Valid
    /\ cpc = "return"
    /\ CHUNK_OVERLAP >= 1
    /\ Len(windows) >= 3

HasText(w) == \E p \in Pos(w) : ~IsSpace(text[p + 1])

\* C2: for 0 <= O < S every chunk returned is non-empty, has no leading or
\* trailing whitespace and is at most S long, and exactly the windows that
\* are not empty or whitespace-only contribute a chunk.
C2_ChunksTrimmedBounded ==
    Valid =>
        /\ \A i \in 1..Len(chunks) :
              /\ chunks[i] # <<>>
              /\ ~IsSpace(chunks[i][1])
              /\ ~IsSpace(chunks[i][Len(chunks[i])])
              /\ Len(chunks[i]) <= CHUNK_SIZE
        /\ Len(chunks)
              = Cardinality({i \in 1..Len(windows) : HasText(windows[i])})

C2_Witness ==
    /\ Valid
    /\ cpc = "return"
    /\ \E i \in 1..Len(windows) : ~HasText(windows[i])
    /\ \E i \in 1..Len(windows) :
          /\ HasText(windows[i])
          /\ IsSpace(text[windows[i][1] + 1])
    /\ chunks # <<>>

\* C3: for 0 <= O < S chunk_text terminates: start strictly increases on
\* every iteration that does not break, the loop stops at the first window
\* whose end is the text length, and the empty text returns no chunk.
C3_Terminates ==
    /\ [][(Valid /\ cpc = "loop" /\ cpc' = "loop") => start' > start]_vars
    /\ []((Valid /\ cpc = "return") =>
            /\ \A i \in 1..Len(windows) :
                  (windows[i][2] = n) <=> (i = Len(windows))
            /\ n = 0 => chunks = <<>> /\ windows = <<>>)
    /\ (Valid => <>(cpc = "return"))

C3_Witness ==
    /\ Valid
    /\ cpc = "return"
    /\ Len(windows) >= 2

ExampleRun ==
    /\ text = Example
    /\ CHUNK_SIZE = 10
    /\ CHUNK_OVERLAP = 3
    /\ cpc = "return"

\* C4 (as amended): "AAAAABBBBBCCCCC" with S=10, O=3 chunks to
\* ["AAAAABBBBB", "BBBCCCCC"]: the second window is text[7:15].
C4_ExampleChunks ==
    ExampleRun =>
        chunks = << <<"A","A","A","A","A","B","B","B","B","B">>,
                    <<"B","B","B","C","C","C","C","C">> >>

C4_Witness == ExampleRun /\ Len(chunks) = 2

\* C4 as stated: the example chunks to ["AAAAABBBBB", "BBCCCCC"].
C4_AsStated ==
    ExampleRun =>
        chunks = << <<"A","A","A","A","A","B","B","B","B","B">>,
                    <<"B","B","C","C","C","C","C">> >>

====
